---- MODULE Spec2Model ----
(***************************************************************************)
(* WordPress AI image optimizer agent (src/agent.py).                      *)
(*                                                                         *)
(* The model covers the registry document held by WordPressAIAgent         *)
(* (self.clients, persisted to Config.DB_FILE), the /api/process handler   *)
(* and the pipeline coroutine process_wordpress_site with its helpers.     *)
(* A pipeline run is a coroutine on the serving event loop: one action is  *)
(* the code between two suspension points of one run (one HTTP exchange,   *)
(* or the pacing sleep).  Remote parties (the WordPress site, the text     *)
(* generation provider) are the environment: every answer they give is an  *)
(* input of the action that receives it.                                   *)
(*                                                                         *)
(* Spec     the trigger surface with up to MaxRuns runs interleaved on the *)
(*          event loop, against a small set of remote answers.             *)
(* SpecRun  one registration and its run, against the full set of remote   *)
(*          answers.  SpecRunFair adds the event loop's fairness.          *)
(* SpecHook registrations and /api/webhook handlers on the event loop.     *)
(* SpecStore the registry document, its file and /api/stats.               *)
(* SpecThreads the scheduler thread beside the serving thread; here the    *)
(*          statements of update_client_stats and save_clients are steps   *)
(*          of their own, since the two threads share the registry.        *)
(***************************************************************************)
EXTENDS Integers, Sequences, FiniteSets, TLC

\* ------------------------------------------------------------------ bounds
\* Runs launched in one behaviour.
MaxRuns == 2
\* Non-empty pages a media listing serves before it runs out.
MaxPages == 2
\* /api/webhook requests of known clients in one behaviour.
MaxHooks == 1
\* Passes of the scheduler thread in one behaviour.
MaxPasses == 1

\* ------------------------------------------------------------ Python values
\* Python's None, also what dict.get gives for an absent key.
NoneVal == "None"

\* Truth value of a str-or-None, as `not x` and all([...]) take it.
Truthy(v) == v \notin {NoneVal, ""}

RECURSIVE Concat(_)
Concat(ss) == IF ss = <<>> THEN <<>> ELSE Head(ss) \o Concat(Tail(ss))

\* ----------------------------------------------------------- configuration
\* Config.AI_MODE: the three provider modes; any other value takes the else
\* branch of generate_with_ai ("basic" stands for every such value).
RemoteModes == {"huggingface", "mistral", "local"}
AIModes == RemoteModes \cup {"basic"}
\* HF_API_KEY / MISTRAL_API_KEY: unset ("") or set.
ApiKeys == {"", "key"}

\* --------------------------------------------------------------- the inputs
ClientIds == {"acme", "globex"}

\* A client_id given as a JSON number (5), which all([...]) accepts as it
\* does a string.
NumericId == "<int 5>"

\* Application passwords.
Secrets == {"app-password", "other-password"}

\* Bodies of POST /api/process: the four fields given, or one of them absent
\* (None) or empty.
RequestFields == {"client_id", "wp_url", "wp_user", "wp_password"}
FullRequest(c) ==
  [client_id |-> c, wp_url |-> "https://wp.example",
   wp_user |-> "admin", wp_password |-> "app-password"]
Requests ==
  {FullRequest(c) : c \in ClientIds}
    \cup {[FullRequest("acme") EXCEPT ![f] = v] :
            f \in RequestFields, v \in {NoneVal, ""}}

\* Media records as the listing returns them: post = 0 is "no parent".
ImgNoAltKey == [id |-> 1, alt_text |-> NoneVal, post |-> 0]
ImgEmptyAlt == [id |-> 2, alt_text |-> "", post |-> 7]
ImgWithAlt == [id |-> 3, alt_text |-> "Logo", post |-> 7]

\* One answer to GET /wp-json/wp/v2/media: a transport exception, or a status
\* with (for 200) the decoded batch.
MediaException == [kind |-> "exception", status |-> 0, batch |-> <<>>]
MediaError == [kind |-> "http", status |-> 500, batch |-> <<>>]
MediaPage(b) == [kind |-> "http", status |-> 200, batch |-> b]
\* The non-empty pages a listing serves (per_page=100 only caps their length).
PageBatches == { <<ImgNoAltKey>>, <<ImgWithAlt>>, <<ImgNoAltKey, ImgEmptyAlt>> }
MediaResponses ==
  {MediaException, MediaError, MediaPage(<<>>)} \cup {MediaPage(b) : b \in PageBatches}

\* Answers to GET posts/{id} and pages/{id}: an exception before anything is
\* assigned (transport, or a 200 whose body response.json or the first .get
\* rejects), a status other than 200, a 200 with a post record, and a 200
\* whose record has a title but a content that is not {"rendered": <string>}
\* (strip_html raises).
ParentResponses == {"exception", "http404", "http200", "http200_nocontent"}

\* Answers of the generation provider.  The text is a token sequence: "{" and
\* "}" are the braces find/rfind look for, "kv" is well-formed member text,
\* "bad" is text json.loads rejects, "prose" is text around the object.
ProviderTexts ==
  { <<>>, <<"prose">>, <<"}", "prose", "{">>,
    <<"prose", "{", "kv", "}", "prose">>, <<"{", "kv", "}">>,
    <<"{", "}">>, <<"{", "bad", "}">> }
ProviderException == [kind |-> "exception", status |-> 0, text |-> <<>>]
ProviderError == [kind |-> "http", status |-> 500, text |-> <<>>]
ProviderOk(t) == [kind |-> "http", status |-> 200, text |-> t]
ProviderResponses ==
  {ProviderException, ProviderError} \cup {ProviderOk(t) : t \in ProviderTexts}

\* Answers to POST /wp-json/wp/v2/media/{id}.
UpdateResponses == {"exception", "http500", "http200"}

\* ------------------------------------------------------------------- state
VARIABLES
  AI_MODE,       \* Config.AI_MODE
  api_key,       \* the provider key of the environment
  clients,       \* agent.clients: the registry document in memory
  db_file,       \* Config.DB_FILE on disk
  db_writes,     \* save_clients calls so far
  runs,          \* process_wordpress_site coroutines, in launch order
  response,      \* status of the last answer of the trigger surface
  hooks,         \* /api/webhook handlers of known clients, in arrival order
  stats_body,    \* body of the last /api/stats answer
  sched          \* the thread of scheduled_processing

vars ==
  <<AI_MODE, api_key, clients, db_file, db_writes, runs, response, hooks,
    stats_body, sched>>

\* ------------------------------------------------------------ the registry
\* `order` is the insertion order of the 'clients' dict, which iteration and
\* json.dump follow.
EmptyDocument ==
  [clients |-> <<>>, order |-> <<>>, tasks |-> <<>>,
   stats |-> [total_processed |-> 0]]

NoFile == [exists |-> FALSE, content |-> EmptyDocument]

\* The name json.dump writes for a dict key: a str as it is, an int in
\* decimal.  (The ids of the model have different names.)
JsonKey(k) == IF k = NumericId THEN "5" ELSE k

\* The JSON text of a document (json.dump, and jsonify): an object whose
\* member names are strings, in the dict's order.
json_dump(doc) ==
  LET names == {JsonKey(k) : k \in DOMAIN doc.clients}
      KeyNamed(j) == CHOOSE k \in DOMAIN doc.clients : JsonKey(k) = j
  IN [doc EXCEPT
        !.clients = [j \in names |-> doc.clients[KeyNamed(j)]],
        !.order = [i \in DOMAIN doc.order |-> JsonKey(doc.order[i])]]

\* json.load of such a text: the object with its member names as str keys.
json_load(text) == text

load_clients(file) == IF file.exists THEN json_load(file.content) ELSE EmptyDocument

save_clients(doc) == [exists |-> TRUE, content |-> json_dump(doc)]

ZeroStats == [total_processed |-> 0, total_errors |-> 0]

\* The record process_site creates, and the one update_client_stats creates
\* (which has no 'sites' key).
NewClient == [has_sites |-> TRUE, sites |-> <<>>, stats |-> ZeroStats]
NewStatsOnlyClient == [has_sites |-> FALSE, sites |-> <<>>, stats |-> ZeroStats]

SetClient(doc, c, rec) ==
  [doc EXCEPT
     !.clients =
       [k \in (DOMAIN doc.clients) \cup {c} |-> IF k = c THEN rec ELSE doc.clients[k]],
     !.order = IF c \in DOMAIN doc.clients THEN @ ELSE Append(@, c)]

\* client.get('sites', []), lines 549 and 564.
SitesOf(rec) == IF rec.has_sites THEN rec.sites ELSE <<>>

\* Mutant: a site the client already has is not appended again.
register_dedup(doc, client_id, wp_data) ==
  LET d1 == IF client_id \notin DOMAIN doc.clients
            THEN SetClient(doc, client_id, NewClient) ELSE doc
      old == d1.clients[client_id]
  IN IF \E i \in DOMAIN old.sites : old.sites[i] = wp_data THEN d1
     ELSE SetClient(d1, client_id, [old EXCEPT !.sites = Append(old.sites, wp_data)])

\* process_site, lines 516-523: create the client if new, append the site.
register(doc, client_id, wp_data) ==
  LET d1 == IF client_id \notin DOMAIN doc.clients
            THEN SetClient(doc, client_id, NewClient) ELSE doc
      old == d1.clients[client_id]
  IN SetClient(d1, client_id, [old EXCEPT !.sites = Append(old.sites, wp_data)])

\* Mutant: the errors are added to total_processed.
update_client_stats_swapped(doc, client_id, processed, errors) ==
  LET old == doc.clients[client_id]
      d2 == SetClient(doc, client_id,
              [old EXCEPT !.stats.total_processed = @ + processed + errors])
  IN [d2 EXCEPT !.stats.total_processed = @ + processed + errors]

\* Mutant: the global counter is forgotten.
update_client_stats_noglobal(doc, client_id, processed, errors) ==
  LET old == doc.clients[client_id]
  IN SetClient(doc, client_id,
       [old EXCEPT !.stats.total_processed = @ + processed,
                   !.stats.total_errors = @ + errors])

update_client_stats(doc, client_id, processed, errors) ==
  LET d1 == IF client_id \notin DOMAIN doc.clients
            THEN SetClient(doc, client_id, NewStatsOnlyClient) ELSE doc
      old == d1.clients[client_id]
      d2 == SetClient(d1, client_id,
              [old EXCEPT !.stats.total_processed = @ + processed,
                          !.stats.total_errors = @ + errors])
  IN [d2 EXCEPT !.stats.total_processed = @ + processed]

\* Mutant: the password is left out of the validation.
valid_request_nopassword(data) ==
  Truthy(data.client_id) /\ Truthy(data.wp_url) /\ Truthy(data.wp_user)

\* POST /api/process, line 513: all([client_id, url, user, password]).
valid_request(data) ==
  /\ Truthy(data.client_id)
  /\ Truthy(data.wp_url)
  /\ Truthy(data.wp_user)
  /\ Truthy(data.wp_password)

\* ------------------------------------------------------------ the pipeline
\* Mutant: the alt text is not looked at.
IsCandidate_any(image) == TRUE

\* `if not image.get('alt_text')`, line 209.
IsCandidate(image) == ~Truthy(image.alt_text)

Candidates(images) == {i \in 1..Len(images) : IsCandidate(images[i])}

\* The for loop's progress from position `from`: images that fail the test of
\* line 209 are passed over without a suspension point.  Len(images)+1 when
\* the loop is over.
NextCandidate(images, from) ==
  LET later == {i \in Candidates(images) : i >= from}
  IN IF later = {} THEN Len(images) + 1
     ELSE CHOOSE i \in later : \A j \in later : i <= j

NoContext == [image_id |-> 0, page_title |-> "", page_content |-> ""]

\* The title and the stripped, truncated content an endpoint's record gives.
TitleOf(endpoint) == IF endpoint = "posts" THEN "Post title" ELSE "Page title"
ContentOf(endpoint) == IF endpoint = "posts" THEN "post text" ELSE "page text"

\* A generation result: None, or a dict with `size` keys.
MetaNone == [kind |-> "None", size |-> 0, source |-> "none"]
MetaDict(n, src) == [kind |-> "dict", size |-> n, source |-> src]

\* `if metadata:`, line 217: None and the empty dict are false.
MetaTruthy(m) == m.kind = "dict" /\ m.size > 0

NoResult == [processed |-> 0, errors |-> 0, total |-> 0]

\* The coroutine asyncio.create_task schedules (line 527), before its first
\* request.  requested .. stats_updates record what the run has done; owner
\* is who runs the coroutine: a task of its own, a webhook handler that
\* awaits it, or the scheduler thread.  tmp, loaded and buffer are the
\* thread's own values inside update_client_stats and save_clients; raced
\* records that another run was inside them when this one entered.
NewRun(client_id, wp_data) ==
  [client_id |-> client_id, wp_data |-> wp_data, owner |-> "task",
   pc |-> "Discovering",
   page |-> 1, images |-> <<>>, idx |-> 0,
   context |-> NoContext, ctx_requests |-> <<>>, metadata |-> MetaNone,
   processed |-> 0, errors |-> 0, result |-> NoResult,
   requested |-> <<>>, responses |-> <<>>,
   extracted |-> {}, generated |-> {}, n_updates |-> 0,
   n_null |-> 0, only_500 |-> TRUE, n_paced |-> 0, stats_updates |-> 0,
   tmp |-> 0, loaded |-> FALSE, buffer |-> EmptyDocument, raced |-> FALSE]

\* Entering the loop body for the first candidate at or after `from`, or
\* leaving the loop.
enter_image(run, from) ==
  LET j == NextCandidate(run.images, from)
  IN [run EXCEPT !.idx = j,
                 !.pc = IF j > Len(run.images) THEN "Aggregating" ELSE "Extracting",
                 !.context = NoContext, !.ctx_requests = <<>>,
                 !.metadata = MetaNone]

\* Mutant: the page number is not advanced.
fetch_page_samepage(run, resp) ==
  LET logged == [run EXCEPT !.requested = Append(@, run.page),
                            !.responses = Append(@, resp)]
  IN IF resp.kind = "http" /\ resp.status = 200 /\ resp.batch # <<>>
     THEN [logged EXCEPT !.images = @ \o resp.batch]
     ELSE enter_image(logged, 1)

\* Mutant: a transport exception is not caught and ends the run.
fetch_page_raise(run, resp) ==
  LET logged == [run EXCEPT !.requested = Append(@, run.page),
                            !.responses = Append(@, resp)]
  IN IF resp.kind = "exception" THEN [logged EXCEPT !.pc = "Raised"]
     ELSE IF resp.status = 200 /\ resp.batch # <<>>
          THEN [logged EXCEPT !.images = @ \o resp.batch, !.page = @ + 1]
          ELSE enter_image(logged, 1)

\* One iteration of fetch_wordpress_images' while loop, lines 251-266.
fetch_page(run, resp) ==
  LET logged == [run EXCEPT !.requested = Append(@, run.page),
                            !.responses = Append(@, resp)]
  IN IF resp.kind = "exception" THEN enter_image(logged, 1)
     ELSE IF resp.status = 200
          THEN IF resp.batch = <<>> THEN enter_image(logged, 1)
               ELSE [logged EXCEPT !.images = @ \o resp.batch, !.page = @ + 1]
          ELSE enter_image(logged, 1)

\* One pass of the loop over the endpoints (lines 287-300) on the context so
\* far: the context after it, and whether the loop was left by `break`.
\* Line 294 assigns page_title before line 297 can raise.
lookup(context, endpoint, resp) ==
  IF resp = "http200"
  THEN [context |-> [context EXCEPT !.page_title = TitleOf(endpoint),
                                    !.page_content = ContentOf(endpoint)],
        broke |-> TRUE]
  ELSE IF resp = "http200_nocontent"
       THEN [context |-> [context EXCEPT !.page_title = TitleOf(endpoint)],
             broke |-> FALSE]
       ELSE [context |-> context, broke |-> FALSE]

\* get_image_context, lines 270-302: the context and the endpoints asked.
get_image_context(image, posts, pages) ==
  LET own == [image_id |-> image.id, page_title |-> "", page_content |-> ""]
      first == lookup(own, "posts", posts)
      second == lookup(first.context, "pages", pages)
  IN IF image.post = 0
     THEN [context |-> own, requests |-> <<>>]
     ELSE IF first.broke
          THEN [context |-> first.context, requests |-> <<"posts">>]
          ELSE [context |-> second.context, requests |-> <<"posts", "pages">>]

\* str.find / str.rfind on the token text: a Python index, -1 when absent.
Find(text, tok) ==
  LET at == {i \in 1..Len(text) : text[i] = tok}
  IN IF at = {} THEN -1 ELSE (CHOOSE i \in at : \A j \in at : i <= j) - 1

RFind(text, tok) ==
  LET at == {i \in 1..Len(text) : text[i] = tok}
  IN IF at = {} THEN -1 ELSE (CHOOSE i \in at : \A j \in at : i >= j) - 1

\* text[a:b] for a, b >= 0.
Slice(text, a, b) == SubSeq(text, a + 1, IF b > Len(text) THEN Len(text) ELSE b)

\* json.loads on the token text: the dict, or a raise (ok = FALSE).
json_loads(text) ==
  IF text = <<"{", "kv", "}">> THEN [ok |-> TRUE, value |-> MetaDict(4, "provider")]
  ELSE IF text = <<"{", "}">> THEN [ok |-> TRUE, value |-> MetaDict(0, "provider")]
  ELSE [ok |-> FALSE, value |-> MetaNone]

\* Mutant: text that does not parse is answered by the basic generator.
LoadsOrBasic(text) ==
  LET r == json_loads(text) IN IF r.ok THEN r.value ELSE MetaDict(4, "basic")

\* json.loads inside `try ... except Exception`: a raise ends in return None.
LoadsOrNone(text) == LET r == json_loads(text) IN IF r.ok THEN r.value ELSE MetaNone

\* Mutant: a non-200 answer falls back to the basic generator.
generate_with_huggingface_fallback(resp) ==
  IF resp.kind = "exception" THEN MetaNone
  ELSE IF resp.status = 200
       THEN IF Find(resp.text, "{") >= 0 /\ RFind(resp.text, "}") + 1 > Find(resp.text, "{")
            THEN LoadsOrNone(Slice(resp.text, Find(resp.text, "{"), RFind(resp.text, "}") + 1))
            ELSE MetaNone
       ELSE MetaDict(4, "basic")

generate_with_huggingface(resp) ==
  IF resp.kind = "exception" THEN MetaNone
  ELSE IF resp.status = 200
       THEN LET json_start == Find(resp.text, "{")
                json_end == RFind(resp.text, "}") + 1
            IN IF json_start >= 0 /\ json_end > json_start
               THEN LoadsOrNone(Slice(resp.text, json_start, json_end))
               ELSE MetaNone
       ELSE MetaNone

generate_with_mistral(resp) ==
  IF resp.kind = "exception" THEN MetaNone
  ELSE IF resp.status = 200
       THEN LET json_start == Find(resp.text, "{")
                json_end == RFind(resp.text, "}") + 1
            IN IF json_start >= 0
               THEN LoadsOrNone(Slice(resp.text, json_start, json_end))
               ELSE MetaNone
       ELSE MetaNone

generate_with_local_llm(resp) ==
  IF resp.kind = "exception" THEN MetaNone
  ELSE IF resp.status = 200
       THEN LET json_start == Find(resp.text, "{")
                json_end == RFind(resp.text, "}") + 1
            IN IF json_start >= 0
               THEN LoadsOrNone(Slice(resp.text, json_start, json_end))
               ELSE MetaNone
       ELSE MetaNone

\* generate_basic_metadata: four non-empty strings built from the prompt; no
\* request is made.
generate_basic_metadata(context) == MetaDict(4, "basic")

\* Mutant: an unrecognised mode is served by the default provider.
generate_with_ai_default(mode, context, resp) ==
  IF mode = "mistral" THEN generate_with_mistral(resp)
  ELSE IF mode = "local" THEN generate_with_local_llm(resp)
  ELSE generate_with_huggingface(resp)

\* generate_with_ai, lines 64-75: the dispatch on Config.AI_MODE.
generate_with_ai(mode, context, resp) ==
  IF mode = "huggingface" THEN generate_with_huggingface(resp)
  ELSE IF mode = "mistral" THEN generate_with_mistral(resp)
  ELSE IF mode = "local" THEN generate_with_local_llm(resp)
  ELSE generate_basic_metadata(context)

\* update_wordpress_image, lines 332-345.
update_wordpress_image(resp) == resp = "http200"

\* Mutant: a null result is passed over without counting an error.
after_generate_uncounted(run, metadata) ==
  IF MetaTruthy(metadata)
  THEN [run EXCEPT !.metadata = metadata, !.pc = "Updating"]
  ELSE [run EXCEPT !.pc = "Pacing"]

\* Mutant: the update call is made whatever the generation returned.
after_generate_always(run, metadata) ==
  [run EXCEPT !.metadata = metadata, !.pc = "Updating"]

\* Mutant: after a null result the loop goes on without the pause.
after_generate_nopause(run, metadata) ==
  IF MetaTruthy(metadata)
  THEN [run EXCEPT !.metadata = metadata, !.pc = "Updating"]
  ELSE enter_image([run EXCEPT !.errors = @ + 1], run.idx + 1)

\* The test of the generation result, lines 217 and 228-229.
after_generate(run, metadata) ==
  IF MetaTruthy(metadata)
  THEN [run EXCEPT !.metadata = metadata, !.pc = "Updating"]
  ELSE [run EXCEPT !.errors = @ + 1, !.pc = "Pacing"]

\* Mutant: a failed update is not counted.
after_update_uncounted(run, success) ==
  IF success
  THEN [run EXCEPT !.processed = @ + 1, !.pc = "Pacing"]
  ELSE [run EXCEPT !.pc = "Pacing"]

\* Mutant: a failed update raises out of the run.
after_update_raise(run, success) ==
  IF success
  THEN [run EXCEPT !.processed = @ + 1, !.pc = "Pacing"]
  ELSE [run EXCEPT !.pc = "Raised"]

\* The counting of the update's result, lines 224-227.
after_update(run, success) ==
  IF success
  THEN [run EXCEPT !.processed = @ + 1, !.pc = "Pacing"]
  ELSE [run EXCEPT !.errors = @ + 1, !.pc = "Pacing"]

\* The scheduler thread as __main__ starts it (lines 570-571), in the
\* time.sleep of line 560.  size is the dict size the iterator of line 563
\* was made with, yielded the number of clients it has given, site the
\* position in the current client's list, run the run that asyncio.run is
\* executing.
SchedulerStart ==
  [pc |-> "Sleeping", size |-> 0, yielded |-> 0, client |-> NoneVal,
   site |-> 0, run |-> 0, passes |-> 0]

\* Before any /api/stats answer.
NoBody ==
  [total_processed |-> 0, active_clients |-> 0, processing |-> 0, clients |-> <<>>]

\* ----------------------------------------------------------------- actions
\* The state after construction: no database file, so load_clients gives the
\* empty document.  The configuration is read once from the environment.
Init ==
  /\ AI_MODE \in AIModes
  /\ api_key \in ApiKeys
  /\ db_file = NoFile
  /\ clients = load_clients(NoFile)
  /\ db_writes = 0
  /\ runs = <<>>
  /\ response = 0
  /\ hooks = <<>>
  /\ stats_body = NoBody
  /\ sched = SchedulerStart

\* The runs that are tasks of the event loop.
TaskRuns == {r \in DOMAIN runs : runs[r].owner = "task"}

\* Mutant: the registration is not written to the file before the launch.
ProcessSite_unsaved(data) ==
  LET wp_data == [url |-> data.wp_url, user |-> data.wp_user,
                  password |-> data.wp_password]
  IN /\ IF ~valid_request(data)
        THEN /\ response' = 400
             /\ UNCHANGED <<clients, db_file, db_writes, runs>>
        ELSE /\ Cardinality(TaskRuns) < MaxRuns
             /\ clients' = register(clients, data.client_id, wp_data)
             /\ runs' = Append(runs, NewRun(data.client_id, wp_data))
             /\ response' = 200
             /\ UNCHANGED <<db_file, db_writes>>
     /\ UNCHANGED <<AI_MODE, api_key, hooks, stats_body, sched>>

\* POST /api/process (process_site, lines 500-532).
ProcessSite(data) ==
  LET wp_data == [url |-> data.wp_url, user |-> data.wp_user,
                  password |-> data.wp_password]
  IN /\ IF ~valid_request(data)
        THEN /\ response' = 400
             /\ UNCHANGED <<clients, db_file, db_writes, runs>>
        ELSE /\ Cardinality(TaskRuns) < MaxRuns
             /\ clients' = register(clients, data.client_id, wp_data)
             /\ db_file' = save_clients(clients')
             /\ db_writes' = db_writes + 1
             /\ runs' = Append(runs, NewRun(data.client_id, wp_data))
             /\ response' = 200
     /\ UNCHANGED <<AI_MODE, api_key, hooks, stats_body, sched>>

RunLocal ==
  UNCHANGED <<AI_MODE, api_key, clients, db_file, db_writes, response, hooks,
              stats_body, sched>>

\* One media listing request and its answer (lines 253-266).
FetchPage(r, resp) ==
  /\ runs[r].pc = "Discovering"
  /\ (resp.kind = "http" /\ resp.status = 200 /\ resp.batch # <<>>)
       => runs[r].page <= MaxPages
  /\ runs' = [runs EXCEPT ![r] = fetch_page(@, resp)]
  /\ RunLocal

\* get_image_context for the current image (line 211).
ExtractContext(r, posts, pages) ==
  /\ runs[r].pc = "Extracting"
  /\ LET run == runs[r]
         got == get_image_context(run.images[run.idx], posts, pages)
     IN runs' = [runs EXCEPT ![r] =
                   [run EXCEPT !.context = got.context,
                               !.ctx_requests = got.requests,
                               !.extracted = @ \cup {run.idx},
                               !.pc = "Generating"]]
  /\ RunLocal

\* generate_with_ai and the test of its result (lines 214-217, 228-229).
Generate(r, resp) ==
  /\ runs[r].pc = "Generating"
  /\ LET run == runs[r]
         metadata == generate_with_ai(AI_MODE, run.context, resp)
         called == [run EXCEPT
                      !.context = NoContext, !.ctx_requests = <<>>,
                      !.generated = @ \cup {run.idx},
                      !.n_null = IF metadata = MetaNone THEN @ + 1 ELSE @,
                      !.only_500 = IF AI_MODE \in RemoteModes
                                   THEN @ /\ resp = ProviderError ELSE @]
     IN runs' = [runs EXCEPT ![r] = after_generate(called, metadata)]
  /\ RunLocal

\* update_wordpress_image and the counting of its result (lines 219-227).
UpdateImage(r, resp) ==
  /\ runs[r].pc = "Updating"
  /\ LET run == runs[r]
         called == [run EXCEPT !.metadata = MetaNone, !.n_updates = @ + 1]
     IN runs' = [runs EXCEPT ![r] =
                   after_update(called, update_wordpress_image(resp))]
  /\ RunLocal

\* asyncio.sleep(1) is over (line 232): on to the next image.
Pace(r) ==
  /\ runs[r].pc = "Pacing"
  /\ runs' = [runs EXCEPT ![r] =
                enter_image([@ EXCEPT !.n_paced = @ + 1], @.idx + 1)]
  /\ RunLocal

\* The return of process_wordpress_site, lines 237-241.
finished(run) ==
  [run EXCEPT !.pc = "Done",
              !.stats_updates = @ + 1,
              !.result = [processed |-> run.processed,
                          errors |-> run.errors,
                          total |-> Len(run.images)]]

\* update_client_stats with its save_clients, and the return (lines 235-241),
\* of a run that is a task.
Aggregate(r) ==
  /\ runs[r].pc = "Aggregating"
  /\ runs[r].owner = "task"
  /\ LET run == runs[r]
     IN /\ clients' = update_client_stats(clients, run.client_id,
                                          run.processed, run.errors)
        /\ db_file' = save_clients(clients')
        /\ db_writes' = db_writes + 1
        /\ runs' = [runs EXCEPT ![r] = finished(run)]
  /\ UNCHANGED <<AI_MODE, api_key, response, hooks, stats_body, sched>>

\* ---- update_client_stats and save_clients, statement by statement
\* The statements 354, 355, 356 as program positions.
StatsLines == {"Line354", "Line355", "Line356"}
UpdateSection == StatsLines \cup {"Saving", "Flushing"}

\* The item an augmented assignment reads, and the amount it adds.
stats_item(doc, run) ==
  IF run.pc = "Line354" THEN doc.clients[run.client_id].stats.total_processed
  ELSE IF run.pc = "Line355" THEN doc.clients[run.client_id].stats.total_errors
  ELSE doc.stats.total_processed

stats_amount(run) == IF run.pc = "Line355" THEN run.errors ELSE run.processed

\* Mutant: the global counter is assigned without the amount.
stats_assign_noglobal(doc, run, v) ==
  IF run.pc = "Line354"
  THEN [doc EXCEPT !.clients[run.client_id].stats.total_processed = v]
  ELSE IF run.pc = "Line355"
       THEN [doc EXCEPT !.clients[run.client_id].stats.total_errors = v]
       ELSE doc

\* The item assignment that ends an augmented assignment.
stats_assign(doc, run, v) ==
  IF run.pc = "Line354"
  THEN [doc EXCEPT !.clients[run.client_id].stats.total_processed = v]
  ELSE IF run.pc = "Line355"
       THEN [doc EXCEPT !.clients[run.client_id].stats.total_errors = v]
       ELSE [doc EXCEPT !.stats.total_processed = v]

after_line(pc) ==
  IF pc = "Line354" THEN "Line355" ELSE IF pc = "Line355" THEN "Line356" ELSE "Saving"

ThreadLocal == UNCHANGED <<AI_MODE, api_key, response, hooks, stats_body, sched>>

\* Lines 349-352: the client's record is made if it is missing.
StatsEnsure(r) ==
  /\ runs[r].pc = "Aggregating"
  /\ clients' = IF runs[r].client_id \notin DOMAIN clients.clients
                THEN SetClient(clients, runs[r].client_id, NewStatsOnlyClient)
                ELSE clients
  /\ runs' = [runs EXCEPT ![r].pc = "Line354",
                          ![r].raced = \E o \in DOMAIN runs :
                                          o # r /\ runs[o].pc \in UpdateSection]
  /\ UNCHANGED <<db_file, db_writes>>
  /\ ThreadLocal

\* `x[k] += v` reads x[k] ...
StatsLoad(r) ==
  /\ runs[r].pc \in StatsLines
  /\ ~runs[r].loaded
  /\ runs' = [runs EXCEPT ![r].tmp = stats_item(clients, runs[r]),
                          ![r].loaded = TRUE]
  /\ UNCHANGED <<clients, db_file, db_writes>>
  /\ ThreadLocal

\* ... and then assigns what it read plus v: another thread may have
\* assigned the item in between.
StatsStore(r) ==
  /\ runs[r].pc \in StatsLines
  /\ runs[r].loaded
  /\ clients' = stats_assign(clients, runs[r], runs[r].tmp + stats_amount(runs[r]))
  /\ runs' = [runs EXCEPT ![r].tmp = 0, ![r].loaded = FALSE,
                          ![r].pc = after_line(runs[r].pc)]
  /\ UNCHANGED <<db_file, db_writes>>
  /\ ThreadLocal

\* save_clients, line 62: json.dump reads the document into the file
\* object's buffer ...
SaveEncode(r) ==
  /\ runs[r].pc = "Saving"
  /\ runs' = [runs EXCEPT ![r].buffer = json_dump(clients), ![r].pc = "Flushing"]
  /\ UNCHANGED <<clients, db_file, db_writes>>
  /\ ThreadLocal

\* ... and leaving the `with` block writes the buffer over the file; then
\* the run returns.
SaveFlush(r) ==
  /\ runs[r].pc = "Flushing"
  /\ db_file' = [exists |-> TRUE, content |-> runs[r].buffer]
  /\ db_writes' = db_writes + 1
  /\ runs' = [runs EXCEPT ![r] = finished([@ EXCEPT !.buffer = EmptyDocument])]
  /\ UNCHANGED clients
  /\ ThreadLocal

\* ---- scheduled_processing
SchedLocal ==
  UNCHANGED <<AI_MODE, api_key, clients, db_file, db_writes, response, hooks,
              stats_body>>

\* time.sleep(86400) is over and the for statement of line 563 makes the
\* iterator of the clients dict.
SchedWake ==
  /\ sched.pc = "Sleeping"
  /\ sched.passes < MaxPasses
  /\ sched' = [sched EXCEPT !.pc = "Iterating",
                            !.size = Cardinality(DOMAIN clients.clients),
                            !.yielded = 0,
                            !.passes = @ + 1]
  /\ UNCHANGED runs
  /\ SchedLocal

\* The iterator is asked for the next client (line 563): RuntimeError,
\* which nothing in the thread catches, when the dict has changed size
\* since the iterator was made; else the next key in insertion order, or
\* the end of the pass.
SchedNextClient ==
  /\ sched.pc = "Iterating"
  /\ sched' =
       IF Cardinality(DOMAIN clients.clients) # sched.size
       THEN [sched EXCEPT !.pc = "Crashed"]
       ELSE IF sched.yielded >= Len(clients.order)
            THEN [sched EXCEPT !.pc = "Sleeping", !.client = NoneVal]
            ELSE [sched EXCEPT !.pc = "Sites",
                               !.yielded = @ + 1,
                               !.client = clients.order[sched.yielded + 1],
                               !.site = 0]
  /\ UNCHANGED runs
  /\ SchedLocal

SchedulerRun(client_id, site) == [NewRun(client_id, site) EXCEPT !.owner = "scheduler"]

\* The for statement of line 564 over the client's list as it is now, and
\* asyncio.run of line 565 for the next site; the statement is reached
\* again when that run has returned.
SchedNextSite ==
  /\ \/ sched.pc = "Sites"
     \/ sched.pc = "Running" /\ runs[sched.run].pc = "Done"
  /\ LET sites == SitesOf(clients.clients[sched.client])
     IN IF sched.site + 1 <= Len(sites)
        THEN /\ runs' = Append(runs, SchedulerRun(sched.client, sites[sched.site + 1]))
             /\ sched' = [sched EXCEPT !.pc = "Running", !.site = @ + 1,
                                       !.run = Len(runs) + 1]
        ELSE /\ sched' = [sched EXCEPT !.pc = "Iterating", !.run = 0]
             /\ UNCHANGED runs
  /\ SchedLocal

\* The body get_stats builds (lines 537-542); processing_queue is never
\* appended to.  jsonify writes the 'clients' dict as json.dump does.
get_stats(doc) ==
  [total_processed |-> doc.stats.total_processed,
   active_clients |-> Cardinality(DOMAIN doc.clients),
   processing |-> 0,
   clients |-> json_dump(doc).clients]

\* GET /api/stats (lines 534-542).
GetStats ==
  /\ stats_body' = get_stats(clients)
  /\ response' = 200
  /\ UNCHANGED <<AI_MODE, api_key, clients, db_file, db_writes, runs, hooks, sched>>

\* The handler of POST /api/webhook/<client_id> while it awaits the run of
\* the site at position pos; launched lists its runs.
NewHook(client_id, r) ==
  [client_id |-> client_id, pc |-> "Awaiting", pos |-> 1, run |-> r,
   launched |-> <<r>>]

HookRun(client_id, site) == [NewRun(client_id, site) EXCEPT !.owner = "webhook"]

\* POST /api/webhook/<client_id> arrives (lines 545-554): 404 for an unknown
\* client; else the handler enters the loop over the client's sites and
\* awaits the run of the first one.
Webhook(client_id) ==
  /\ IF client_id \notin DOMAIN clients.clients
     THEN /\ response' = 404
          /\ UNCHANGED <<runs, hooks>>
     ELSE LET sites == SitesOf(clients.clients[client_id])
          IN /\ Len(hooks) < MaxHooks
             /\ IF sites = <<>>
                THEN /\ response' = 200
                     /\ hooks' = Append(hooks,
                          [NewHook(client_id, 0) EXCEPT !.pc = "Done",
                                                        !.pos = 0,
                                                        !.launched = <<>>])
                     /\ UNCHANGED runs
                ELSE /\ runs' = Append(runs, HookRun(client_id, sites[1]))
                     /\ hooks' = Append(hooks, NewHook(client_id, Len(runs) + 1))
                     /\ UNCHANGED response
  /\ UNCHANGED <<AI_MODE, api_key, clients, db_file, db_writes, stats_body, sched>>

\* Mutant: the handler answers after the first site's run.
webhook_next_return(hook, doc, n) == [hook EXCEPT !.pc = "Done"]

\* The for loop of line 549 after the run of one site has returned: the
\* handler as it awaits the next site's run (n is that run's place in
\* `runs`), or as it answers when the list, as it is by then, is exhausted.
webhook_next(hook, doc, n) ==
  IF hook.pos + 1 <= Len(SitesOf(doc.clients[hook.client_id]))
  THEN [hook EXCEPT !.pos = @ + 1, !.run = n, !.launched = Append(@, n)]
  ELSE [hook EXCEPT !.pc = "Done"]

\* The run a webhook handler awaits ends (lines 235-241) and the handler goes
\* on (lines 549-552); there is no suspension point in between.
WebhookResume(h) ==
  /\ hooks[h].pc = "Awaiting"
  /\ runs[hooks[h].run].pc = "Aggregating"
  /\ LET hook == hooks[h]
         run == runs[hook.run]
         doc == update_client_stats(clients, run.client_id,
                                    run.processed, run.errors)
         ended == [runs EXCEPT ![hook.run] = finished(run)]
         after == webhook_next(hook, doc, Len(runs) + 1)
     IN /\ clients' = doc
        /\ db_file' = save_clients(doc)
        /\ db_writes' = db_writes + 1
        /\ hooks' = [hooks EXCEPT ![h] = after]
        /\ IF after.pc = "Done"
           THEN runs' = ended /\ response' = 200
           ELSE /\ runs' = Append(ended,
                     HookRun(hook.client_id,
                             SitesOf(doc.clients[hook.client_id])[after.pos]))
                /\ UNCHANGED response
  /\ UNCHANGED <<AI_MODE, api_key, stats_body, sched>>

\* ---------------------------------------------------------- specifications
\* The remote answers Spec draws from: every site serves the same one-page
\* media listing.
ServerListing == <<MediaPage(<<ImgNoAltKey, ImgWithAlt>>), MediaPage(<<>>)>>
ServerProvider == {ProviderError, ProviderOk(<<"{", "kv", "}">>)}
ServerUpdate == {"http500", "http200"}

Next ==
  \/ \E data \in Requests : ProcessSite(data)
  \/ \E r \in DOMAIN runs : FetchPage(r, ServerListing[runs[r].page])
  \/ \E r \in DOMAIN runs : ExtractContext(r, "http404", "http404")
  \/ \E r \in DOMAIN runs : \E resp \in ServerProvider : Generate(r, resp)
  \/ \E r \in DOMAIN runs : \E resp \in ServerUpdate : UpdateImage(r, resp)
  \/ \E r \in DOMAIN runs : Pace(r)
  \/ \E r \in DOMAIN runs : Aggregate(r)

Spec == Init /\ [][Next]_vars

\* One accepted registration, then its run against every remote answer.
NextRun ==
  \/ \E data \in Requests : valid_request(data) /\ runs = <<>> /\ ProcessSite(data)
  \/ \E r \in DOMAIN runs : \E resp \in MediaResponses : FetchPage(r, resp)
  \/ \E r \in DOMAIN runs : \E posts \in ParentResponses, pages \in ParentResponses :
       ExtractContext(r, posts, pages)
  \/ \E r \in DOMAIN runs : \E resp \in ProviderResponses : Generate(r, resp)
  \/ \E r \in DOMAIN runs : \E resp \in UpdateResponses : UpdateImage(r, resp)
  \/ \E r \in DOMAIN runs : Pace(r)
  \/ \E r \in DOMAIN runs : Aggregate(r)

SpecRun == Init /\ [][NextRun]_vars

\* Registrations, webhooks and their runs on the event loop; every site
\* serves ServerListing, the provider answers and the update is applied.  A
\* registration arrives when the task of the one before it has ended (tasks
\* side by side are Spec's matter); webhooks arrive at any time.
WebhookIds == {"acme", "initech"}

NextHook ==
  \/ \E data \in Requests :
       /\ valid_request(data)
       /\ \A r \in TaskRuns : runs[r].pc = "Done"
       /\ ProcessSite(data)
  \/ \E c \in WebhookIds : Webhook(c)
  \/ \E h \in DOMAIN hooks : WebhookResume(h)
  \/ \E r \in DOMAIN runs : FetchPage(r, ServerListing[runs[r].page])
  \/ \E r \in DOMAIN runs : ExtractContext(r, "http404", "http404")
  \/ \E r \in DOMAIN runs : Generate(r, ProviderOk(<<"{", "kv", "}">>))
  \/ \E r \in DOMAIN runs : UpdateImage(r, "http200")
  \/ \E r \in DOMAIN runs : Pace(r)
  \/ \E r \in DOMAIN runs : Aggregate(r)

\* The runs of SpecHook do not depend on the configuration: one is taken.
InitHook == Init /\ AI_MODE = "huggingface" /\ api_key = "key"

SpecHook == InitHook /\ [][NextHook]_vars

\* The registry as a store: registrations under a string id and under a
\* numeric one, with either password, their runs, and /api/stats.
StoreRequests ==
  {[FullRequest(c) EXCEPT !.wp_password = pw] : c \in {"acme", NumericId}, pw \in Secrets}

NextStore ==
  \/ \E data \in StoreRequests :
       /\ \A r \in TaskRuns : runs[r].pc = "Done"
       /\ ProcessSite(data)
  \/ GetStats
  \/ \E r \in DOMAIN runs : FetchPage(r, ServerListing[runs[r].page])
  \/ \E r \in DOMAIN runs : ExtractContext(r, "http404", "http404")
  \/ \E r \in DOMAIN runs : Generate(r, ProviderOk(<<"{", "kv", "}">>))
  \/ \E r \in DOMAIN runs : \E resp \in ServerUpdate : UpdateImage(r, resp)
  \/ \E r \in DOMAIN runs : Pace(r)
  \/ \E r \in DOMAIN runs : Aggregate(r)

SpecStore == InitHook /\ [][NextStore]_vars

\* The serving thread (registrations and their tasks) beside the scheduler
\* thread; every step of either thread may come between two steps of the
\* other.  Every update is applied.
NextThreads ==
  \/ \E data \in Requests :
       /\ valid_request(data)
       /\ \A r \in TaskRuns : runs[r].pc = "Done"
       /\ ProcessSite(data)
  \/ SchedWake
  \/ SchedNextClient
  \/ SchedNextSite
  \/ \E r \in DOMAIN runs : FetchPage(r, ServerListing[runs[r].page])
  \/ \E r \in DOMAIN runs : ExtractContext(r, "http404", "http404")
  \/ \E r \in DOMAIN runs : Generate(r, ProviderOk(<<"{", "kv", "}">>))
  \/ \E r \in DOMAIN runs : UpdateImage(r, "http200")
  \/ \E r \in DOMAIN runs : Pace(r)
  \/ \E r \in DOMAIN runs : StatsEnsure(r)
  \/ \E r \in DOMAIN runs : StatsLoad(r)
  \/ \E r \in DOMAIN runs : StatsStore(r)
  \/ \E r \in DOMAIN runs : SaveEncode(r)
  \/ \E r \in DOMAIN runs : SaveFlush(r)

SpecThreads == InitHook /\ [][NextThreads]_vars

\* One registered site: the run its registration launched beside the runs
\* the scheduler thread makes of the same site.
NextRace ==
  \/ \E data \in Requests : valid_request(data) /\ runs = <<>> /\ ProcessSite(data)
  \/ SchedWake
  \/ SchedNextClient
  \/ SchedNextSite
  \/ \E r \in DOMAIN runs : FetchPage(r, ServerListing[runs[r].page])
  \/ \E r \in DOMAIN runs : ExtractContext(r, "http404", "http404")
  \/ \E r \in DOMAIN runs : Generate(r, ProviderOk(<<"{", "kv", "}">>))
  \/ \E r \in DOMAIN runs : \E resp \in ServerUpdate : UpdateImage(r, resp)
  \/ \E r \in DOMAIN runs : Pace(r)
  \/ \E r \in DOMAIN runs : StatsEnsure(r)
  \/ \E r \in DOMAIN runs : StatsLoad(r)
  \/ \E r \in DOMAIN runs : StatsStore(r)
  \/ \E r \in DOMAIN runs : SaveEncode(r)
  \/ \E r \in DOMAIN runs : SaveFlush(r)

SpecRace == InitHook /\ [][NextRace]_vars

\* The event loop resumes a coroutine whose awaited call has ended, and every
\* HTTP call and sleep ends: a run that can take a step takes one.
RunSteps ==
  \E r \in DOMAIN runs :
    \/ \E resp \in MediaResponses : FetchPage(r, resp)
    \/ \E posts \in ParentResponses, pages \in ParentResponses :
         ExtractContext(r, posts, pages)
    \/ \E resp \in ProviderResponses : Generate(r, resp)
    \/ \E resp \in UpdateResponses : UpdateImage(r, resp)
    \/ Pace(r)
    \/ Aggregate(r)

SpecRunFair == SpecRun /\ WF_vars(RunSteps)

\* ================================================================== claims
\* What the claims read off an image list, stated apart from the pipeline's
\* own test.
LackingAlt(images) ==
  {i \in 1..Len(images) : images[i].alt_text = NoneVal \/ images[i].alt_text = ""}

RECURSIVE SumProcessed(_, _)
SumProcessed(doc, ids) ==
  IF ids = {} THEN 0
  ELSE LET c == CHOOSE x \in ids : TRUE
       IN doc.clients[c].stats.total_processed + SumProcessed(doc, ids \ {c})

StatsOf(doc, c) == IF c \in DOMAIN doc.clients THEN doc.clients[c].stats ELSE ZeroStats

AllFieldsGiven(data) ==
  \A f \in RequestFields : data[f] # NoneVal /\ data[f] # ""

\* C10: a POST /api/process whose body lacks (or leaves empty) one of the
\* four fields is answered 400 and changes neither the registry, nor the
\* file, nor the set of runs.
C10_InvalidRequestRejected ==
  [][\A data \in Requests :
       (~AllFieldsGiven(data) /\ ProcessSite(data)) =>
         (response' = 400 /\ UNCHANGED <<clients, db_file, db_writes, runs>>)]_vars

\* A request has been rejected while a site is registered and persisted.
C10_Witness ==
  /\ response = 400
  /\ db_file.exists
  /\ db_file.content = clients
  /\ \E c \in DOMAIN clients.clients : Len(clients.clients[c].sites) = 1

\* What a media answer is, read off the log of a run.
IsBatchPage(resp) == resp.kind = "http" /\ resp.status = 200 /\ resp.batch # <<>>
IsEmptyPage(resp) == resp.kind = "http" /\ resp.status = 200 /\ resp.batch = <<>>
IsFailure(resp) == resp.kind = "exception" \/ resp.status # 200

\* The batches of the first n answers, in page order.
FirstBatches(responses, n) == Concat([i \in 1..n |-> responses[i].batch])

InCycle == {"Extracting", "Generating", "Updating", "Pacing"}
AfterDiscovery == InCycle \cup {"Aggregating", "Done"}

\* C3: an image that carries alt text is never the subject of a context
\* extraction, a generation call or an update call; exactly the images
\* lacking alt text go through the per-image cycle.
C3_AltImagesUntouched ==
  \A r \in DOMAIN runs :
    LET run == runs[r]
    IN /\ run.extracted \cup run.generated \subseteq LackingAlt(run.images)
       /\ run.pc \in InCycle => run.idx \in LackingAlt(run.images)
       /\ run.pc = "Updating" => run.idx \in run.generated
       /\ run.n_updates <= Cardinality(run.generated)
       /\ run.pc = "Done" =>
            /\ run.extracted = LackingAlt(run.images)
            /\ run.generated = LackingAlt(run.images)

\* A run has ended whose list starts with an image carrying alt text and
\* holds a candidate that was updated.
C3_Witness ==
  \E r \in DOMAIN runs :
    /\ runs[r].pc = "Done"
    /\ Len(runs[r].images) >= 2
    /\ runs[r].images[1].alt_text = "Logo"
    /\ runs[r].n_updates >= 1

\* C4: a run in which every candidate's generation returned None makes no
\* update call and returns processed = 0 and errors = number of candidates.
C4_AllNullNoUpdate ==
  \A r \in DOMAIN runs :
    LET run == runs[r]
        n == Cardinality(LackingAlt(run.images))
    IN (run.pc = "Done" /\ run.n_null = n) =>
         /\ run.n_updates = 0
         /\ run.result.processed = 0
         /\ run.result.errors = n

\* A run over at least two candidates has ended with None for each.
C4_Witness ==
  \E r \in DOMAIN runs :
    /\ runs[r].pc = "Done"
    /\ runs[r].n_null >= 2
    /\ runs[r].n_null = Cardinality(LackingAlt(runs[r].images))

\* C5 as stated: with a provider mode and HTTP 500 for every provider call,
\* a run returns {processed: 0, errors: N, total: N}, N the candidate count.
C5_TotalIsCandidateCount ==
  \A r \in DOMAIN runs :
    LET run == runs[r]
        n == Cardinality(LackingAlt(run.images))
    IN (run.pc = "Done" /\ AI_MODE \in RemoteModes /\ run.only_500
          /\ run.generated # {}) =>
         run.result = [processed |-> 0, errors |-> n, total |-> n]

\* C5 amended: with a provider mode and HTTP 500 for every provider call, a
\* run returns processed = 0, errors = N (the candidate count) and total =
\* the number of discovered images.
C5_AllProviderErrors ==
  \A r \in DOMAIN runs :
    LET run == runs[r]
        n == Cardinality(LackingAlt(run.images))
    IN (run.pc = "Done" /\ AI_MODE \in RemoteModes /\ run.only_500) =>
         run.result = [processed |-> 0, errors |-> n, total |-> Len(run.images)]

\* Such a run has ended over a list holding candidates and an image with alt
\* text.
C5_Witness ==
  \E r \in DOMAIN runs :
    /\ runs[r].pc = "Done" /\ AI_MODE \in RemoteModes /\ runs[r].only_500
    /\ Cardinality(runs[r].generated) >= 2
    /\ Len(runs[r].images) > Cardinality(LackingAlt(runs[r].images))

\* What C6 says of a run: no generation returns None, and when every update
\* call succeeded the run returns processed = candidates, errors = 0,
\* total = discovered images, and the client's total_processed has grown by
\* that processed count (from zero: the run is the client's first).
FallbackRun(run) ==
  /\ run.n_null = 0
  /\ (run.pc = "Done" /\ run.n_updates = run.processed) =>
       /\ run.result = [processed |-> Cardinality(LackingAlt(run.images)),
                        errors |-> 0, total |-> Len(run.images)]
       /\ clients.clients[run.client_id].stats.total_processed = run.result.processed

\* C6 as stated: with no provider key configured the agent generates in basic
\* fallback mode.
C6_NoKeyIsFallback == \A r \in DOMAIN runs : api_key = "" => FallbackRun(runs[r])

\* C6 amended: in basic fallback mode, which is AI_MODE being none of
\* huggingface, mistral, local (whatever the provider key), generation never
\* returns None and a run whose updates all succeed returns processed =
\* candidates, errors = 0, total = discovered images.
C6_FallbackModeRun ==
  \A r \in DOMAIN runs : AI_MODE \notin RemoteModes => FallbackRun(runs[r])

\* The scenario of the claim: 3 images, 2 lacking alt text, {2, 0, 3}.
C6_Witness ==
  \E r \in DOMAIN runs :
    /\ AI_MODE \notin RemoteModes
    /\ runs[r].pc = "Done"
    /\ Len(runs[r].images) = 3
    /\ runs[r].result = [processed |-> 2, errors |-> 0, total |-> 3]
    /\ clients.clients[runs[r].client_id].stats.total_processed = 2

\* C7: once a listing has answered k non-empty pages and then an empty one,
\* discovery is over, the pages requested are 1..k+1 in order, once each,
\* and the images are the k batches in page order.
C7_PaginationEnds ==
  \A r \in DOMAIN runs :
    LET run == runs[r]
        n == Len(run.responses)
    IN (/\ n >= 1
        /\ IsEmptyPage(run.responses[n])
        /\ \A i \in 1..(n - 1) : IsBatchPage(run.responses[i])) =>
         /\ run.pc \in AfterDiscovery
         /\ run.requested = [i \in 1..n |-> i]
         /\ run.images = FirstBatches(run.responses, n - 1)

\* Two non-empty pages and the empty third, the run ended.
C7_Witness ==
  \E r \in DOMAIN runs :
    /\ runs[r].pc = "Done"
    /\ Len(runs[r].responses) = 3
    /\ IsEmptyPage(runs[r].responses[3])
    /\ Len(runs[r].images) >= 3
    /\ runs[r].images[1] # runs[r].images[Len(runs[r].images)]

\* C8: once the request for page j has failed (exception or non-200 status)
\* after j-1 non-empty pages, discovery is over with pages 1..j requested,
\* nothing is raised, the images are the j-1 batches, and the run goes on
\* over that list: it ends with total = their number and every candidate
\* among them handled.
C8_PartialDiscovery ==
  \A r \in DOMAIN runs :
    LET run == runs[r]
        n == Len(run.responses)
    IN (/\ n >= 1
        /\ IsFailure(run.responses[n])
        /\ \A i \in 1..(n - 1) : IsBatchPage(run.responses[i])) =>
         /\ run.pc \in AfterDiscovery
         /\ run.requested = [i \in 1..n |-> i]
         /\ run.images = FirstBatches(run.responses, n - 1)
         /\ run.pc = "Done" =>
              /\ run.result.total = Len(FirstBatches(run.responses, n - 1))
              /\ run.generated = LackingAlt(run.images)

\* A page, then an exception on page 2; the run ended with an update applied.
C8_Witness ==
  \E r \in DOMAIN runs :
    /\ runs[r].pc = "Done"
    /\ Len(runs[r].responses) = 2
    /\ runs[r].responses[2].kind = "exception"
    /\ runs[r].result.total >= 1
    /\ runs[r].result.processed >= 1

MalformedTexts ==
  { <<>>, <<"prose">>, <<"}", "prose", "{">>, <<"{", "bad", "}">> }
ProviderFailed(resp) ==
  \/ resp.kind = "exception"
  \/ resp.status # 200
  \/ resp.text \in MalformedTexts

\* C14: the generation mode never changes, and in a provider mode a failed
\* provider call gives None for that image: no metadata of the basic
\* generator appears, no update call is made for the image, and errors grows
\* by one.
C14_NoFallbackOnFailure ==
  [][/\ AI_MODE' = AI_MODE
     /\ \A r \in DOMAIN runs : \A resp \in ProviderResponses :
          (AI_MODE \in RemoteModes /\ ProviderFailed(resp) /\ Generate(r, resp)) =>
            /\ runs'[r].metadata = MetaNone
            /\ runs'[r].pc = "Pacing"
            /\ runs'[r].n_null = runs[r].n_null + 1
            /\ runs'[r].errors = runs[r].errors + 1
            /\ runs'[r].processed = runs[r].processed
            /\ runs'[r].n_updates = runs[r].n_updates
     /\ \A r \in DOMAIN runs' :
          AI_MODE \in RemoteModes => runs'[r].metadata.source # "basic"]_vars

\* In a provider mode a run has ended in which one image's call failed and
\* another image was updated.
C14_Witness ==
  \E r \in DOMAIN runs :
    /\ AI_MODE \in RemoteModes
    /\ runs[r].pc = "Done"
    /\ runs[r].n_null >= 1
    /\ ~runs[r].only_500
    /\ runs[r].processed >= 1

\* The candidates before position n of a list.
LackingAltBefore(images, n) == {i \in LackingAlt(images) : i < n}

\* C15: the images of a run are handled one at a time, and the pause follows
\* every handled image whatever its outcome: when the calls for an image are
\* under way, every earlier candidate has been generated for and paused
\* after, and no later one has been started.
C15_PacedOneAtATime ==
  \A r \in DOMAIN runs :
    LET run == runs[r]
    IN /\ run.pc \in InCycle =>
            /\ run.n_paced = Cardinality(LackingAltBefore(run.images, run.idx))
            /\ LackingAltBefore(run.images, run.idx) \subseteq run.generated
            /\ run.generated \subseteq 1..run.idx
            /\ run.extracted \subseteq 1..run.idx
       /\ run.pc \in {"Aggregating", "Done"} =>
            run.n_paced = Cardinality(LackingAlt(run.images))
       /\ run.n_paced = run.processed + run.errors
                          - (IF run.pc = "Pacing" THEN 1 ELSE 0)

\* A run over three candidates has ended: one updated, one whose update
\* failed, one whose generation gave None; three pauses were taken.
C15_Witness ==
  \E r \in DOMAIN runs :
    /\ runs[r].pc = "Done"
    /\ runs[r].n_paced = 3
    /\ runs[r].processed = 1
    /\ runs[r].n_null = 1
    /\ runs[r].n_updates = 2

\* What C20 calls a successful lookup: a 200 that gives the parent record.
LookupSucceeded(resp) == resp = "http200"

ImageOnly(image) == [image_id |-> image.id, page_title |-> "", page_content |-> ""]

FullFrom(image, endpoint) ==
  [image_id |-> image.id, page_title |-> TitleOf(endpoint),
   page_content |-> ContentOf(endpoint)]

\* C20: context extraction never raises; for an image without a parent it
\* asks nothing and returns the image-only context; for an image with a
\* parent it asks posts, then pages, stops at the first lookup that
\* succeeds and returns that record's title and text, and when both lookups
\* fail it returns the image-only context.
C20_ContextDegrades ==
  [][\A r \in DOMAIN runs : \A posts \in ParentResponses, pages \in ParentResponses :
       ExtractContext(r, posts, pages) =>
         LET image == runs[r].images[runs[r].idx]
             asked == runs'[r].ctx_requests
             got == runs'[r].context
         IN /\ runs'[r].pc = "Generating"
            /\ image.post = 0 => asked = <<>> /\ got = ImageOnly(image)
            /\ image.post # 0 =>
                 IF LookupSucceeded(posts)
                 THEN asked = <<"posts">> /\ got = FullFrom(image, "posts")
                 ELSE /\ asked = <<"posts", "pages">>
                      /\ got = IF LookupSucceeded(pages)
                               THEN FullFrom(image, "pages")
                               ELSE ImageOnly(image)]_vars

\* C18: an accepted registration appends the site to the client's list, also
\* when the client already has that site, so the list is as long as the
\* number of accepted registrations; it leaves the client's counters, every
\* other client's record and the global counter as they were; the record of
\* a client id not seen before starts with zero counters.
C18_RegistrationAppends ==
  [][\A data \in Requests :
       (AllFieldsGiven(data) /\ ProcessSite(data)) =>
         LET c == data.client_id
             site == [url |-> data.wp_url, user |-> data.wp_user,
                      password |-> data.wp_password]
             known == c \in DOMAIN clients.clients
         IN /\ DOMAIN clients'.clients = DOMAIN clients.clients \cup {c}
            /\ clients'.clients[c].sites =
                 (IF known THEN clients.clients[c].sites ELSE <<>>) \o <<site>>
            /\ clients'.clients[c].stats =
                 (IF known THEN clients.clients[c].stats ELSE ZeroStats)
            /\ \A o \in DOMAIN clients.clients \ {c} :
                 clients'.clients[o] = clients.clients[o]
            /\ clients'.stats = clients.stats
            /\ Len(clients'.clients[c].sites)
                 = Cardinality({r \in DOMAIN runs' : runs'[r].client_id = c})]_vars

\* A client whose first run has counted one processed image has just
\* registered the same site a second time.
C18_Witness ==
  \E c \in DOMAIN clients.clients :
    /\ Len(clients.clients[c].sites) = 2
    /\ clients.clients[c].sites[1] = clients.clients[c].sites[2]
    /\ clients.clients[c].stats.total_processed = 1
    /\ Len(runs) = 2
    /\ runs[1].pc = "Done"
    /\ runs[2].client_id = c
    /\ runs[2].pc = "Discovering" /\ runs[2].requested = <<>>

\* The site of a run is in the persisted document, under the run's client.
SitePersisted(file, run) ==
  /\ file.exists
  /\ run.client_id \in DOMAIN file.content.clients
  /\ \E i \in DOMAIN file.content.clients[run.client_id].sites :
       file.content.clients[run.client_id].sites[i] = run.wp_data

C13_RoundTrip ==
  /\ load_clients(save_clients(clients)) = clients
  /\ db_file.exists => load_clients(db_file) = clients

\* The registry with every site's password replaced by pw.
WithPassword(doc, pw) ==
  [doc EXCEPT !.clients =
     [c \in DOMAIN doc.clients |->
        [doc.clients[c] EXCEPT !.sites =
           [i \in DOMAIN doc.clients[c].sites |->
              [doc.clients[c].sites[i] EXCEPT !.password = pw]]]]]

\* C19: GET /api/stats changes nothing in the registry, and its answer is
\* the same for any two registries that differ only in the sites'
\* passwords.
C19_StatsReadOnlyNoSecrets ==
  [][GetStats =>
       /\ UNCHANGED <<clients, db_file, db_writes, runs, hooks>>
       /\ \A pw \in Secrets : get_stats(WithPassword(clients, pw)) = stats_body']_vars

\* The sum of what the first n runs have counted in a field.
RECURSIVE SumCounted(_, _, _)
SumCounted(rs, field, n) ==
  IF n = 0 THEN 0 ELSE rs[n][field] + SumCounted(rs, field, n - 1)

AllRunsDone == runs # <<>> /\ \A r \in DOMAIN runs : runs[r].pc = "Done"

\* C12: the counter updates and the saves of runs in different threads are
\* not serialised, and an update is lost only by their interleaving: no
\* counter ever exceeds what the runs have counted, and once all runs have
\* returned, none of them having entered update_client_stats while another
\* was between its first line and the end of its save, the counters in
\* memory and in the file are the sums of what the runs returned.
C12_LossOnlyByInterleaving ==
  /\ clients.stats.total_processed <= SumCounted(runs, "processed", Len(runs))
  /\ \A c \in DOMAIN clients.clients :
       /\ clients.clients[c].stats.total_processed
            <= SumCounted(runs, "processed", Len(runs))
       /\ clients.clients[c].stats.total_errors
            <= SumCounted(runs, "errors", Len(runs))
  /\ (AllRunsDone /\ \A r \in DOMAIN runs : ~runs[r].raced) =>
       /\ \A r \in DOMAIN runs :
            /\ runs[r].result.processed = runs[r].processed
            /\ runs[r].result.errors = runs[r].errors
       /\ clients.stats.total_processed = SumCounted(runs, "processed", Len(runs))
       /\ load_clients(db_file).stats.total_processed
            = SumCounted(runs, "processed", Len(runs))
       /\ \A c \in DOMAIN clients.clients :
            /\ clients.clients[c].stats.total_processed
                 = SumCounted(runs, "processed", Len(runs))
            /\ clients.clients[c].stats.total_errors
                 = SumCounted(runs, "errors", Len(runs))
            /\ load_clients(db_file).clients[c].stats = clients.clients[c].stats

\* A request-triggered run and a scheduler run of the same site have both
\* returned, each with one image updated; the counters in memory hold both,
\* and the file, written last from the buffer encoded first, holds one.
C12_Witness ==
  /\ Len(runs) = 2
  /\ \A r \in DOMAIN runs : runs[r].pc = "Done" /\ runs[r].result.processed = 1
  /\ runs[1].owner = "task" /\ runs[2].owner = "scheduler"
  /\ clients.stats.total_processed = 2
  /\ load_clients(db_file).stats.total_processed = 1

\* C16: the scheduler thread lives as long as the process: in no state has
\* it ended, whatever registrations and runs happen during its pass, so
\* that after every interval every registered site is run again.
C16_SchedulerKeepsFiring == sched.pc # "Crashed"

\* The positions a run may go to from a position: Discovering, then for
\* each candidate Extracting, Generating, Updating (passed over after a
\* null result) and the pause, then Aggregating, then the return.
NextPositions(pc) ==
  IF pc = "Discovering" THEN {"Discovering", "Extracting", "Aggregating"}
  ELSE IF pc = "Extracting" THEN {"Generating"}
  ELSE IF pc = "Generating" THEN {"Updating", "Pacing"}
  ELSE IF pc = "Updating" THEN {"Pacing"}
  ELSE IF pc = "Pacing" THEN {"Extracting", "Aggregating"}
  ELSE IF pc = "Aggregating" THEN {"Done"}
  ELSE {}

\* C21: a run starts in discovery and moves only along Discovering, per
\* candidate Extracting, Generating, Updating, then Aggregating and the
\* return.  The image list is complete before any image is handled; the
\* generation call for an image follows its context extraction; an update
\* call is made only for the image whose generation has just returned
\* non-null metadata, and the loop then moves on to a later image, so at
\* most once per candidate; the stats update is made once, after the cycle
\* of the last candidate.
C21_RunOrder ==
  [][\A r \in DOMAIN runs' :
       IF r \notin DOMAIN runs
       THEN /\ runs'[r].pc = "Discovering"
            /\ runs'[r].images = <<>>
            /\ runs'[r].extracted = {} /\ runs'[r].generated = {}
            /\ runs'[r].n_updates = 0 /\ runs'[r].stats_updates = 0
       ELSE LET old == runs[r]
                new == runs'[r]
            IN new # old =>
                 /\ new.pc \in NextPositions(old.pc)
                 /\ old.pc # "Discovering" => new.images = old.images
                 /\ old.pc = "Discovering" =>
                      /\ new.extracted = {} /\ new.generated = {}
                      /\ new.n_updates = 0
                 /\ new.pc = "Extracting" =>
                      /\ new.idx > old.idx
                      /\ new.idx \notin old.extracted \cup old.generated
                 /\ (new.pc \in InCycle /\ new.pc # "Extracting") => new.idx = old.idx
                 /\ new.extracted # old.extracted =>
                      /\ old.pc = "Extracting"
                      /\ new.extracted = old.extracted \cup {old.idx}
                 /\ new.generated # old.generated =>
                      /\ old.pc = "Generating"
                      /\ old.idx \in old.extracted
                      /\ new.generated = old.generated \cup {old.idx}
                 /\ new.pc = "Updating" =>
                      /\ new.metadata # MetaNone
                      /\ new.idx \in new.generated
                 /\ new.n_updates # old.n_updates =>
                      /\ old.pc = "Updating"
                      /\ old.metadata # MetaNone
                      /\ old.idx \in old.generated
                      /\ new.n_updates = old.n_updates + 1
                      /\ new.n_updates <= Cardinality(new.generated)
                 /\ new.stats_updates # old.stats_updates =>
                      /\ old.pc = "Aggregating" /\ new.pc = "Done"
                      /\ old.stats_updates = 0 /\ new.stats_updates = 1
                      /\ old.generated = LackingAlt(old.images)
                      /\ old.n_paced = Cardinality(LackingAlt(old.images))]_vars

\* A run over an image with alt text and two candidates has returned: one
\* candidate went through extraction, generation and an update call, the
\* other's generation returned None and no update call was made for it.
C21_Witness ==
  \E r \in DOMAIN runs :
    /\ runs[r].pc = "Done"
    /\ Len(runs[r].images) = 3
    /\ Cardinality(runs[r].generated) = 2
    /\ runs[r].n_updates = 1
    /\ runs[r].n_null = 1
    /\ runs[r].stats_updates = 1

\* The candidates a run has handled: those before the current position,
\* and the current one once its outcome is counted and the pause is on.
Handled(run) ==
  IF run.pc = "Discovering" THEN {}
  ELSE IF run.pc \in InCycle
       THEN LackingAltBefore(run.images, run.idx)
              \cup (IF run.pc = "Pacing" THEN {run.idx} ELSE {})
       ELSE LackingAlt(run.images)

\* C22: at every point of a run processed + errors is the number of
\* candidates handled so far, and each candidate's handling adds one to
\* exactly one of the two; a returned run has processed + errors equal to
\* the number of discovered images lacking alt text, which is at most the
\* returned total, the number of all discovered images.
C22_OneCountPerCandidate ==
  /\ [](\A r \in DOMAIN runs :
          LET run == runs[r]
          IN /\ run.processed + run.errors = Cardinality(Handled(run))
             /\ run.pc = "Done" =>
                  /\ run.result.processed + run.result.errors
                       = Cardinality(LackingAlt(run.images))
                  /\ run.result.processed + run.result.errors <= run.result.total
                  /\ run.result.total = Len(run.images))
  /\ [][\A r \in DOMAIN runs :
          LET old == runs[r]
              new == runs'[r]
              counted == Handled(new) # Handled(old)
          IN /\ counted =>
                  /\ Handled(new) = Handled(old) \cup {old.idx}
                  /\ \/ new.processed = old.processed + 1 /\ new.errors = old.errors
                     \/ new.processed = old.processed /\ new.errors = old.errors + 1
             /\ ~counted =>
                  new.processed = old.processed /\ new.errors = old.errors]_vars

\* A run over two candidates and an image with alt text has returned: one
\* candidate counted as processed, the other as an error, total 3.
C22_Witness ==
  \E r \in DOMAIN runs :
    /\ runs[r].pc = "Done"
    /\ runs[r].result = [processed |-> 1, errors |-> 1, total |-> 3]
    /\ Cardinality(LackingAlt(runs[r].images)) = 2

====
